---- MODULE Spec2Model ----
(***************************************************************************)
(* State-machine model of comet-slider (src/src/comet-slider.js): the two  *)
(* slider classes CometSlider and Slider, their navigation operations, the *)
(* CSS fade, the WebGL transition session and the completion handlers.     *)
(*                                                                         *)
(* JavaScript runs every callback to completion and drains the microtask   *)
(* queue (promise reactions) before the next task starts, so one action of *)
(* the model is one task: a public call, a timer callback, an animation    *)
(* frame callback, or the completion of a texture load or module import,   *)
(* together with the promise reactions (.then / .catch handlers) it        *)
(* triggers.                                                               *)
(***************************************************************************)
EXTENDS Integers, Sequences, FiniteSets, TLC

\* ---------------------------------------------------------------- bounds
MaxSlides == 3      \* slide counts 1..MaxSlides
MaxSess   == 1      \* GPU sessions that may be in flight at once
MaxFades  == 1      \* pending fade timers / fade frame callbacks

\* ------------------------------------------------------- program constants
duration == 900     \* defaultOptions.duration (ms)

Classes    == {"CometSlider", "Slider"}
Animations == {"wave", "none"}
Callbacks  == {"null", "fn", "throws"}   \* options.onChange: absent, a function, a function that raises
\* frame timestamps minus the session's start timestamp (ms) handed to step
Elapsed    == {-50, 450, 900, 1350}
Faults     == {"none", "render", "dispose"}
AllRes     == {"renderer", "geometry", "material", "tex0", "tex1"}

VARIABLES
  cls,         \* which class the instance is
  options,     \* this.options: [animation, loop, onChange]
  hasImg,      \* slide index -> whether _getDirectImg finds an image; DOMAIN = 0..N-1
  three,       \* the GPU library: "ok", "absent", "incomplete"
  index,       \* this.index
  timer,       \* this._timer: 0 for null, else the interval id
  intervals,   \* the set of live setInterval ids
  isAnimating, \* this._isAnimating
  raf,         \* this._raf: 0 for undefined, else the session whose frame request was stored last
  active,      \* slide index -> data-active
  opacity,     \* slide index -> inline style.opacity of the slide's image: "", "0", "1"
  transition,  \* slide index -> whether the image has an inline style.transition
  orphan,      \* an overlay canvas of an ended session is still attached to a slide
  leaked,      \* some GPU resource of an ended session was never disposed
  fadeRafs,    \* pending requestAnimationFrame callbacks of _fadeImages, oldest first
  fadeTimers,  \* pending setTimeout callbacks of _fadeImages, oldest first
  sess,        \* session slot -> the GPU session in it
  cur,         \* history: [from, to] of the transition that set the animating flag last
  emitCount,   \* history: calls of options.onChange since that transition began
  emitArgs     \* history: the last of those calls: the (from, to) _emitChange was
               \* given and the (first, second) arguments it passed to onChange

cfgVars  == <<cls, options, hasImg, three>>
progVars == <<index, timer, intervals, isAnimating, raf, active, opacity, transition,
              orphan, leaked, fadeRafs, fadeTimers, sess, cur, emitCount, emitArgs>>
vars     == <<cfgVars, progVars>>

Slides == DOMAIN hasImg
N      == Cardinality(Slides)          \* this.slides.length
Slots  == 1..MaxSess

\* no frame of the session has run yet (below every frame time)
NoFrame == 0 - 1000
\* lastE: now - start of the session's latest frame that rescheduled itself
NoSess == [pc |-> "free", f |-> 0, t |-> 0, load0 |-> "pending", load1 |-> "pending",
           prevF |-> "", prevT |-> "", lastE |-> NoFrame]
NoCall == 0 - 9                         \* no index: show was not called / no call yet
NoArgs == [from |-> NoCall, to |-> NoCall, first |-> NoCall, second |-> NoCall]

\* The mutable state as one record, so that a handler's sequential code is a
\* composition of functions on it.  fits is not program state: it turns FALSE when
\* a step would need more pending fades or sessions than the bounds allow.
S == [index |-> index, timer |-> timer, intervals |-> intervals,
      isAnimating |-> isAnimating, raf |-> raf, active |-> active,
      opacity |-> opacity, transition |-> transition, orphan |-> orphan,
      leaked |-> leaked, fadeRafs |-> fadeRafs, fadeTimers |-> fadeTimers,
      sess |-> sess, cur |-> cur, emitCount |-> emitCount, emitArgs |-> emitArgs,
      fits |-> TRUE]

Commit(r) ==
  /\ r.fits
  /\ index' = r.index /\ timer' = r.timer /\ intervals' = r.intervals
  /\ isAnimating' = r.isAnimating /\ raf' = r.raf /\ active' = r.active
  /\ opacity' = r.opacity /\ transition' = r.transition /\ orphan' = r.orphan
  /\ leaked' = r.leaked /\ fadeRafs' = r.fadeRafs /\ fadeTimers' = r.fadeTimers
  /\ sess' = r.sess /\ cur' = r.cur /\ emitCount' = r.emitCount
  /\ emitArgs' = r.emitArgs
  /\ UNCHANGED cfgVars

\* ------------------------------------------------------------ helpers

\* _activateIndex(idx)
activateIndex(s, idx) ==
  [s EXCEPT !.active = [[s.active EXCEPT ![s.index] = FALSE] EXCEPT ![idx] = TRUE],
            !.index = idx]

\* Whether this._emitChange(from, to) raises: the user callback raises, or (class
\* Slider) the method does not exist and the call itself is a TypeError.
emitThrows == cls = "Slider" \/ options.onChange = "throws"

\* _emitChange(fromIndex, toIndex): calls options.onChange(toIndex, fromIndex)
emitChange(s, fromIndex, toIndex) ==
  IF cls = "CometSlider" /\ options.onChange # "null"
  THEN [s EXCEPT !.emitCount = s.emitCount + 1,
                 !.emitArgs = [from |-> fromIndex, to |-> toIndex,
                               first |-> toIndex, second |-> fromIndex]]
  ELSE s

\* The completion callback show() passes to _fadeImages and to .then; an error
\* raised by _emitChange leaves the assignments before it in place.
done(s, fromIndex, toIndex) ==
  emitChange([activateIndex(s, toIndex) EXCEPT !.isAnimating = FALSE],
             fromIndex, toIndex)

\* _fadeImages(fromSlide, toSlide, fromImg, toImg, done): the synchronous part
fadeImages(s, f, t) ==
  [s EXCEPT !.opacity = [s.opacity EXCEPT ![t] = "0"],
            !.transition = [[s.transition EXCEPT ![t] = TRUE] EXCEPT ![f] = TRUE],
            !.active = [[s.active EXCEPT ![t] = TRUE] EXCEPT ![f] = TRUE],
            !.fadeRafs = Append(s.fadeRafs, [f |-> f, t |-> t]),
            !.fadeTimers = Append(s.fadeTimers, [f |-> f, t |-> t]),
            !.fits = s.fits /\ Len(s.fadeRafs) < MaxFades /\ Len(s.fadeTimers) < MaxFades]

\* the requestAnimationFrame callback of _fadeImages
fadeFrame(s, f, t) ==
  [s EXCEPT !.opacity = [[s.opacity EXCEPT ![f] = "0"] EXCEPT ![t] = "1"]]

\* the setTimeout callback of _fadeImages
fadeTimeout(s, f, t) ==
  done([s EXCEPT !.transition = [[s.transition EXCEPT ![f] = FALSE] EXCEPT ![t] = FALSE],
                 !.opacity = [[s.opacity EXCEPT ![f] = ""] EXCEPT ![t] = ""],
                 !.active = [[s.active EXCEPT ![f] = FALSE] EXCEPT ![t] = TRUE]],
       f, t)

\* ------------------------------------------------- completion handlers

\* the rejection handler of show(): CometSlider falls back to the fade, Slider
\* swaps at once
catchHandler(s, f, t) ==
  IF cls = "CometSlider" THEN fadeImages(s, f, t) ELSE done(s, f, t)

\* The session's promise resolves: the .then handler runs, and the .catch chained
\* after it runs too when the .then handler raises.
resolved(s, f, t) ==
  IF emitThrows THEN catchHandler(done(s, f, t), f, t) ELSE done(s, f, t)

\* The session's promise rejects: the .then handler is skipped, .catch runs.
rejected(s, f, t) == catchHandler(s, f, t)

\* ------------------------------------------------------- the GPU session

FreeSlots(s) == {k \in Slots : s.sess[k].pc = "free"}
FirstFree(s) == CHOOSE k \in FreeSlots(s) : \A j \in FreeSlots(s) : k <= j

\* Session k ends with its canvas still attached to the from-slide and the
\* resources res never disposed.
endAttached(s, k, res) ==
  [s EXCEPT !.orphan = TRUE,
            !.leaked = s.leaked \/ res # {},
            !.sess = [s.sess EXCEPT ![k] = NoSess]]

\* Session k ends after canvas.remove(), the resources res never disposed.
endRemoved(s, k, res) ==
  [s EXCEPT !.leaked = s.leaked \/ res # {},
            !.sess = [s.sess EXCEPT ![k] = NoSess]]

\* toImg.style.opacity = prevToOpacity || ''; fromImg.style.opacity = prevFromOpacity || ''
restore(s, k) ==
  [s EXCEPT !.opacity = [[s.opacity EXCEPT ![s.sess[k].t] = s.sess[k].prevT]
                            EXCEPT ![s.sess[k].f] = s.sess[k].prevF]]

\* cancelAnimationFrame(this._raf) inside the frame callback of session k.  The
\* handle is the one stored last: the callback now running (nothing to cancel) or
\* the pending frame of another session, which then never runs again: that session
\* keeps its canvas, its resources and the hidden images, and never settles.
cancelFrame(s, k) ==
  IF s.raf # 0 /\ s.raf # k /\ s.sess[s.raf].pc = "frames"
  THEN endAttached(s, s.raf, AllRes)
  ELSE s

\* Canvas creation to the two texture loads: the canvas is appended to the
\* from-slide, then the renderer is constructed; when that raises, the session
\* rejects with the canvas attached.
acquire(s, k, f, t, ctorOk) ==
  IF ctorOk
  THEN [s EXCEPT !.sess = [s.sess EXCEPT ![k] =
                     [NoSess EXCEPT !.pc = "loading", !.f = f, !.t = t]]]
  ELSE rejected([s EXCEPT !.orphan = TRUE,
                          !.sess = [s.sess EXCEPT ![k] = NoSess]], f, t)

\* _webglTransition up to its first suspension.  CometSlider looks the library up
\* synchronously and rejects when it is absent or incomplete; Slider imports it.
webglTransition(s, f, t, ctorOk) ==
  IF cls = "CometSlider" /\ three # "ok" THEN rejected(s, f, t)
  ELSE IF FreeSlots(s) = {} THEN [s EXCEPT !.fits = FALSE]
  ELSE IF cls = "CometSlider" THEN acquire(s, FirstFree(s), f, t, ctorOk)
  ELSE [s EXCEPT !.sess = [s.sess EXCEPT ![FirstFree(s)] =
                   [NoSess EXCEPT !.pc = "import", !.f = f, !.t = t]]]

\* Slider: the dynamic import settles.  When no module can be imported the
\* session rejects at once.  Slider does not verify the module: with a module
\* that lacks PlaneBufferGeometry the canvas is appended and the renderer
\* constructed before new THREE.PlaneBufferGeometry raises, and the session
\* rejects with both left behind.
importDone(s, k, ctorOk) ==
  IF three = "absent"
  THEN rejected([s EXCEPT !.sess = [s.sess EXCEPT ![k] = NoSess]],
                s.sess[k].f, s.sess[k].t)
  ELSE IF three = "incomplete" /\ ctorOk
  THEN rejected(endAttached(s, k, {"renderer"}), s.sess[k].f, s.sess[k].t)
  ELSE acquire(s, k, s.sess[k].f, s.sess[k].t, ctorOk)

\* Both textures are loaded: material, hiding of the two images, both slides
\* active, and the first frame request (which may raise).
begin(s, k, schedOk) ==
  LET se == s.sess[k]
      s1 == [s EXCEPT !.sess = [s.sess EXCEPT ![k] =
                          [se EXCEPT !.pc = "frames", !.load0 = "ok", !.load1 = "ok",
                                     !.prevF = s.opacity[se.f],
                                     !.prevT = s.opacity[se.t]]],
                      !.opacity = [[s.opacity EXCEPT ![se.f] = "0"] EXCEPT ![se.t] = "0"],
                      !.active = [[s.active EXCEPT ![se.t] = TRUE] EXCEPT ![se.f] = TRUE]]
  IN IF schedOk
     THEN [s1 EXCEPT !.raf = k]
     ELSE rejected(endRemoved(restore(s1, k), k, AllRes), se.f, se.t)

\* a faulty continuation that starts the frames after the first texture (sensitivity of C14)
loadDoneEager(s, k, which, ok, schedOk) ==
  IF ~ok THEN rejected(endAttached(s, k, {"renderer", "geometry"}), s.sess[k].f, s.sess[k].t)
  ELSE begin(s, k, schedOk)

\* One of the two _loadTexture promises settles (which = 0 for the from-image).
\* Promise.all rejects with the first failure; the await is inside the try of
\* CometSlider and uncaught in the async function of Slider: both reject.
loadDone(s, k, which, ok, schedOk) ==
  LET se    == s.sess[k]
      other == IF which = 0 THEN se.load1 ELSE se.load0
      otex  == IF which = 0 THEN "tex1" ELSE "tex0"
  IN IF ~ok
     THEN rejected(endAttached(s, k, {"renderer", "geometry"}
                                     \cup (IF other = "ok" THEN {otex} ELSE {})),
                   se.f, se.t)
     ELSE IF other = "ok" THEN begin(s, k, schedOk)
     ELSE [s EXCEPT !.sess = [s.sess EXCEPT ![k] =
                      IF which = 0 THEN [se EXCEPT !.load0 = "ok"]
                                   ELSE [se EXCEPT !.load1 = "ok"]]]

\* the quotient without the upper clamp (sensitivity of C12)
progressUnclamped(e) == (e * 1000) \div duration

\* t = Math.min(1, (now - start) / dur), in thousandths
progress(e) == IF e >= duration THEN 1000 ELSE (e * 1000) \div duration

\* The final frame after a successful render: cancel, reveal, dispose (an error
\* raised while disposing is swallowed and skips the remaining disposals), remove
\* the canvas, finalize the flags, resolve.
finish(s, k, disposeOk) ==
  LET se == s.sess[k]
      s1 == restore(cancelFrame(s, k), k)
      s2 == endRemoved(s1, k, IF disposeOk THEN {} ELSE AllRes)
      s3 == [s2 EXCEPT !.active = [[s2.active EXCEPT ![se.f] = FALSE] EXCEPT ![se.t] = TRUE]]
  IN resolved(s3, se.f, se.t)

\* render raised inside step.  CometSlider catches: cancel, remove the canvas,
\* restore the images, reject.  Slider has no handler: the error leaves the frame
\* callback, nothing is rescheduled and the promise never settles.
stepError(s, k) ==
  LET se == s.sess[k]
  IN IF cls = "CometSlider"
     THEN rejected(endRemoved(restore(cancelFrame(s, k), k), k, AllRes), se.f, se.t)
     ELSE endAttached(s, k, AllRes)

\* uniforms.progress.value of a session: 0 at creation, then the t of its latest frame
uniformProgress(se) == IF se.lastE = NoFrame THEN 0 ELSE progress(se.lastE)

\* a faulty step that requests another frame on every frame that rendered,
\* the final one included (sensitivity of C24)
stepReschedules(s, k, e, renderOk, disposeOk) ==
  IF ~renderOk THEN stepError(s, k)
  ELSE IF progress(e) < 1000
       THEN [s EXCEPT !.raf = k, !.sess = [s.sess EXCEPT ![k].lastE = e]]
  ELSE [finish(s, k, disposeOk) EXCEPT !.raf = k, !.sess = s.sess]

\* step(now), with e = now - start
step(s, k, e, renderOk, disposeOk) ==
  IF ~renderOk THEN stepError(s, k)
  ELSE IF progress(e) < 1000
       THEN [s EXCEPT !.raf = k, !.sess = [s.sess EXCEPT ![k].lastE = e]]
  ELSE finish(s, k, disposeOk)

\* ---------------------------------------------------------- public calls

\* show(toIndex).  An index outside the slides makes _getDirectImg(undefined)
\* raise before anything is assigned.
\* a faulty guard that omits the test of the animating flag (sensitivity of C9)
showReturnsIndexOnly(s, toIndex) == toIndex = s.index

\* the guard of show: the call returns at once
showReturns(s, toIndex) == s.isAnimating \/ toIndex = s.index

\* a faulty test that asks for both images to be missing (sensitivity of C10)
imageMissingBoth(s, toIndex) == ~hasImg[s.index] /\ ~hasImg[toIndex]

\* if (!fromImg || !toImg)
imageMissing(s, toIndex) == ~hasImg[s.index] \/ ~hasImg[toIndex]

\* a faulty show() that stores an index for which there is no slide
\* (sensitivity of C26)
showUnchecked(s, toIndex, ctorOk) ==
  IF showReturns(s, toIndex) THEN s
  ELSE IF toIndex \notin Slides THEN [s EXCEPT !.index = toIndex]
  ELSE IF imageMissing(s, toIndex) THEN activateIndex(s, toIndex)
  ELSE LET s1 == [s EXCEPT !.isAnimating = TRUE,
                           !.cur = [from |-> s.index, to |-> toIndex],
                           !.emitCount = 0,
                           !.emitArgs = NoArgs]
       IN IF options.animation = "none"
          THEN fadeImages(s1, s.index, toIndex)
          ELSE webglTransition(s1, s.index, toIndex, ctorOk)

show(s, toIndex, ctorOk) ==
  IF showReturns(s, toIndex) THEN s
  ELSE IF toIndex \notin Slides THEN s
  ELSE IF imageMissing(s, toIndex) THEN activateIndex(s, toIndex)
  ELSE LET s1 == [s EXCEPT !.isAnimating = TRUE,
                           !.cur = [from |-> s.index, to |-> toIndex],
                           !.emitCount = 0,
                           !.emitArgs = NoArgs]
       IN IF options.animation = "none"
          THEN fadeImages(s1, s.index, toIndex)
          ELSE webglTransition(s1, s.index, toIndex, ctorOk)

\* a faulty next() that never wraps around (sensitivity of C16)
nextTargetNoWrap(s) == IF s.index + 1 >= N THEN NoCall ELSE s.index + 1

\* a faulty next() that wraps around whatever options.loop says (sensitivity of C15)
nextTargetWrap(s) == (s.index + 1 + N) % N

\* the index next() passes to show, or NoCall when it returns early
nextTarget(s) ==
  IF s.index + 1 >= N /\ ~options.loop THEN NoCall ELSE (s.index + 1 + N) % N

\* a faulty prev() that never wraps around (sensitivity of C17)
prevTargetNoWrap(s) == IF s.index - 1 < 0 THEN NoCall ELSE s.index - 1

\* the index prev() passes to show, or NoCall when it returns early
prevTarget(s) ==
  IF s.index - 1 < 0 /\ ~options.loop THEN NoCall ELSE (s.index - 1 + N) % N

next(s, ctorOk) == IF nextTarget(s) = NoCall THEN s ELSE show(s, nextTarget(s), ctorOk)
prev(s, ctorOk) == IF prevTarget(s) = NoCall THEN s ELSE show(s, prevTarget(s), ctorOk)

stop(s) ==
  IF s.timer # 0
  THEN [s EXCEPT !.intervals = s.intervals \ {s.timer}, !.timer = 0]
  ELSE s

\* setInterval returns an id no live interval has
newInterval(s) == CHOOSE i \in 1..(Cardinality(s.intervals) + 1) : i \notin s.intervals

\* a faulty play() that does not stop the running timer first (sensitivity of C18)
playNoStop(s) ==
  [s EXCEPT !.timer = newInterval(s), !.intervals = s.intervals \cup {newInterval(s)}]

play(s) ==
  LET s1 == stop(s)
  IN [s1 EXCEPT !.timer = newInterval(s1),
                !.intervals = s1.intervals \cup {newInterval(s1)}]

destroy(s) == stop(s)

\* ------------------------------------------------- a call left to complete

\* The state once every callback pending in s has been delivered with nothing
\* failing: fade frames and fade timers in order, the import, the two texture
\* loads, and a frame at start + duration.
RECURSIVE drive(_)
drive(s) ==
  IF s.fadeRafs # <<>>
  THEN drive(fadeFrame([s EXCEPT !.fadeRafs = Tail(s.fadeRafs)],
                       Head(s.fadeRafs).f, Head(s.fadeRafs).t))
  ELSE IF s.fadeTimers # <<>>
  THEN drive(fadeTimeout([s EXCEPT !.fadeTimers = Tail(s.fadeTimers)],
                         Head(s.fadeTimers).f, Head(s.fadeTimers).t))
  ELSE IF \E k \in Slots : s.sess[k].pc # "free"
  THEN LET k == CHOOSE j \in Slots : s.sess[j].pc # "free"
       IN IF s.sess[k].pc = "import" THEN drive(importDone(s, k, TRUE))
          ELSE IF s.sess[k].pc = "loading"
          THEN drive(loadDone(s, k, IF s.sess[k].load0 = "pending" THEN 0 ELSE 1, TRUE, TRUE))
          ELSE drive(step(s, k, duration, TRUE, TRUE))
  ELSE s

\* n calls of next(), each left to complete before the following one
RECURSIVE nextTimes(_, _)
nextTimes(s, n) == IF n = 0 THEN s ELSE nextTimes(drive(next(s, TRUE)), n - 1)

\* ---------------------------------------------------------------- actions


\* Whether show(toIndex) would reach the renderer's construction within the call,
\* the only place where the input ctorOk is read.
constructs(s, toIndex) ==
  /\ toIndex \in Slides /\ toIndex # s.index /\ ~s.isAnimating
  /\ ~imageMissing(s, toIndex)
  /\ options.animation # "none" /\ cls = "CometSlider" /\ three = "ok"

Show(i, ctorOk) ==
  /\ ctorOk \/ constructs(S, i)
  /\ Commit(show(S, i, ctorOk))

Next(ctorOk) ==
  /\ ctorOk \/ constructs(S, nextTarget(S))
  /\ Commit(next(S, ctorOk))

Prev(ctorOk) ==
  /\ ctorOk \/ constructs(S, prevTarget(S))
  /\ Commit(prev(S, ctorOk))

\* the autoplay interval fires
Tick(id, ctorOk) ==
  /\ id \in intervals
  /\ ctorOk \/ constructs(S, nextTarget(S))
  /\ Commit(next(S, ctorOk))

Play    == Commit(play(S))
Stop    == Commit(stop(S))
Destroy == Commit(destroy(S))

FadeRaf ==
  /\ fadeRafs # <<>>
  /\ Commit(fadeFrame([S EXCEPT !.fadeRafs = Tail(fadeRafs)],
                      Head(fadeRafs).f, Head(fadeRafs).t))

FadeTimer ==
  /\ fadeTimers # <<>>
  /\ Commit(fadeTimeout([S EXCEPT !.fadeTimers = Tail(fadeTimers)],
                        Head(fadeTimers).f, Head(fadeTimers).t))

ImportDone(k, ctorOk) ==
  /\ sess[k].pc = "import"
  /\ ctorOk \/ three # "absent"
  /\ Commit(importDone(S, k, ctorOk))

LoadDone(k, which, ok, schedOk) ==
  /\ sess[k].pc = "loading"
  /\ (IF which = 0 THEN sess[k].load0 ELSE sess[k].load1) = "pending"
  /\ schedOk \/ (ok /\ (IF which = 0 THEN sess[k].load1 ELSE sess[k].load0) = "ok")
  /\ Commit(loadDone(S, k, which, ok, schedOk))

\* fault: what raises in this frame, if anything.  The timestamps the browser
\* hands to successive frame callbacks never decrease.
Frame(k, e, fault) ==
  /\ sess[k].pc = "frames"
  /\ e >= sess[k].lastE
  /\ fault = "dispose" => progress(e) = 1000
  /\ Commit(step(S, k, e, fault # "render", fault # "dispose"))

\* ------------------------------------------------------------ specification

\* the state the constructor leaves, for every configuration within the bounds
Init ==
  /\ cls \in Classes
  /\ options \in [animation : Animations, loop : BOOLEAN, onChange : Callbacks]
  /\ \E n \in 1..MaxSlides :
       hasImg \in {h \in [0..(n - 1) -> BOOLEAN] : Cardinality({i \in 0..(n - 1) : ~h[i]}) <= 1}
  /\ three \in (IF options.animation = "none" THEN {"ok"}
                ELSE {"ok", "absent", "incomplete"})
  /\ index = 0
  /\ isAnimating = FALSE
  /\ \E autoplay \in BOOLEAN :
       /\ timer = IF autoplay THEN 1 ELSE 0
       /\ intervals = IF autoplay THEN {1} ELSE {}
  /\ raf = 0
  /\ active = [i \in DOMAIN hasImg |-> i = 0]
  /\ opacity = [i \in DOMAIN hasImg |-> ""]
  /\ transition = [i \in DOMAIN hasImg |-> FALSE]
  /\ orphan = FALSE
  /\ leaked = FALSE
  /\ fadeRafs = <<>>
  /\ fadeTimers = <<>>
  /\ sess = [k \in Slots |-> NoSess]
  /\ cur = [from |-> 0, to |-> 0]
  /\ emitCount = 0
  /\ emitArgs = NoArgs

Step ==
  \/ \E i \in -1..N, c \in BOOLEAN : Show(i, c)
  \/ \E c \in BOOLEAN : Next(c)
  \/ \E c \in BOOLEAN : Prev(c)
  \/ \E id \in intervals, c \in BOOLEAN : Tick(id, c)
  \/ Play
  \/ Stop
  \/ Destroy
  \/ FadeRaf
  \/ FadeTimer
  \/ \E k \in Slots, c \in BOOLEAN : ImportDone(k, c)
  \/ \E k \in Slots, w \in {0, 1}, ok \in BOOLEAN, sch \in BOOLEAN : LoadDone(k, w, ok, sch)
  \/ \E k \in Slots, e \in Elapsed, x \in Faults : Frame(k, e, x)

Spec == Init /\ [][Step]_vars

\* The callbacks the browser owes the program: pending timers, frame requests,
\* texture loads and imports are eventually delivered, and the clock advances, so
\* a session that keeps getting frames gets one at or after start + duration.
LastFrame(k) == \E e \in Elapsed, x \in Faults : progress(e) = 1000 /\ Frame(k, e, x)

Fairness ==
  /\ WF_vars(FadeRaf)
  /\ WF_vars(FadeTimer)
  /\ \A k \in Slots :
       /\ WF_vars(\E c \in BOOLEAN : ImportDone(k, c))
       /\ WF_vars(\E w \in {0, 1}, ok \in BOOLEAN, sch \in BOOLEAN : LoadDone(k, w, ok, sch))
       /\ WF_vars(LastFrame(k))

\* Two slides with images, a GPU effect configured and the library present: the
\* configurations in which a transition runs the whole GPU session.
LiveInit ==
  /\ Init
  /\ N = 2 /\ \A i \in Slides : hasImg[i]
  /\ options.animation = "wave" /\ three = "ok"

LiveSpec == LiveInit /\ [][Step]_vars /\ Fairness

\* ------------------------------------------------------------------ claims

\* a transition has set the animating flag at least once
Entered == cur.from # cur.to

\* the GPU sessions in flight
Live == {k \in Slots : sess[k].pc # "free"}

\* completions still to come that assign the index and the animating flag
InFlight == Cardinality(Live) + Len(fadeTimers)

\* a completion callback is still scheduled
Pending == fadeTimers # <<>> \/ Live # {}

\* C1: every show() that sets the animating flag is eventually followed by a
\* state in which the flag is cleared and the index is the requested target.
C1_EventuallyIdleAtTarget ==
  isAnimating ~> (~isAnimating /\ index = cur.to)

\* C1, as a property of states: while the animating flag is set, a callback that
\* will clear it is still scheduled.
C1_NeverStuck == isAnimating => Pending

\* C2: at most one transition (pending fade timer or GPU session) is in flight.
C2_AtMostOneInFlight == InFlight <= 1

\* C3: whenever the animating flag is false, exactly one slide is active and it
\* is the slide at the current index.
C3_OneActiveWhenIdle ==
  ~isAnimating => \A i \in Slides : active[i] <=> i = index

\* C4: once the slider is back in Idle after a transition, a configured onChange
\* has been called exactly once for it.
C4_ChangeExactlyOnce ==
  (~isAnimating /\ Entered /\ options.onChange # "null") => emitCount = 1

\* C5: onChange is called with (fromIndex, toIndex).
C5_FromThenTo ==
  emitCount >= 1 => (emitArgs.first = emitArgs.from /\ emitArgs.second = emitArgs.to)

\* C6: every session removes its overlay canvas before it settles, so no canvas
\* is attached to a slide in Idle.
C6_CanvasReleased ==
  /\ ~orphan
  /\ ~isAnimating => \A k \in Slots : sess[k].pc \notin {"loading", "frames"}

\* C7: no GPU resource a session created is left undisposed when it ends.
C7_AllDisposed == ~leaked

\* C8: with the library unavailable and a GPU effect configured, a transition is
\* carried out by the fade (once the absence is known, the fade's timer is
\* pending while the flag is set), and the step that clears the flag leaves the
\* index at the target with onChange called exactly once.
C8_FallsBackToFade ==
  [][(three # "ok" /\ options.animation # "none") =>
       /\ (isAnimating' /\ \A k \in Slots : sess'[k].pc # "import") =>
            fadeTimers' = <<[f |-> cur'.from, t |-> cur'.to]>>
       /\ (isAnimating /\ ~isAnimating') =>
            /\ index' = cur.to
            /\ options.onChange # "null" => emitCount' = 1]_vars

\* C9: show(i) changes nothing when the animating flag is set or i is the current
\* index: the state after the call is the state before it.
C9_ShowIsNoop ==
  \A i \in -1..N, c \in BOOLEAN :
    (isAnimating \/ i = index) => show(S, i, c) = S

\* a transition is running and a call for another slide with an image is dropped
C9_Witness ==
  /\ isAnimating
  /\ \E i \in Slides : i # index /\ hasImg[i] /\ hasImg[index] /\ show(S, i, TRUE) = S

\* C10: from Idle, when the current or the target slide has no image, show(i)
\* moves the index to i and swaps the two active flags within the call, and
\* changes nothing else: the flag stays clear, no fade or session is started.
C10_MissingImageSwaps ==
  \A i \in Slides, c \in BOOLEAN :
    (~isAnimating /\ i # index /\ (~hasImg[index] \/ ~hasImg[i])) =>
      show(S, i, c) = [S EXCEPT !.index = i,
                                !.active = [[active EXCEPT ![index] = FALSE]
                                              EXCEPT ![i] = TRUE]]

\* the index has been moved to a slide without image, with no transition ever
\* started, and the slide before it can be returned to the same way
C10_Witness ==
  /\ ~isAnimating /\ ~Entered /\ index # 0 /\ ~hasImg[index]
  /\ active[index] /\ ~active[0]
  /\ fadeTimers = <<>> /\ Live = {}

\* C11: the immediate swap show() makes when the current or the target slide has
\* no image calls a configured onChange exactly once for that change of index.
C11_MissingImageNotifies ==
  \A i \in Slides, c \in BOOLEAN :
    (~isAnimating /\ i # index /\ imageMissing(S, i) /\ options.onChange # "null") =>
      show(S, i, c).emitCount = emitCount + 1

\* C12: within a session the progress written on successive frames never
\* decreases, and the frame that ends the session is the first one at or after
\* start + duration and writes exactly 1.0; every frame before it writes less
\* than 1.0 and reschedules.
C12_ProgressMonotoneToOne ==
  \A k \in Slots : sess[k].pc = "frames" =>
    /\ sess[k].lastE < duration
    /\ \A e \in Elapsed, d \in BOOLEAN : e >= sess[k].lastE =>
         LET s2 == step(S, k, e, TRUE, d)
         IN IF e >= duration
            THEN progress(e) = 1000 /\ s2.sess[k].pc = "free"
            ELSE /\ s2.sess[k].pc = "frames" /\ s2.sess[k].lastE = e
                 /\ uniformProgress(s2.sess[k]) < 1000
                 /\ sess[k].lastE # NoFrame =>
                      uniformProgress(s2.sess[k]) >= uniformProgress(sess[k])

\* a session whose latest frame ran halfway through the duration
C12_Witness ==
  \E k \in Slots : sess[k].pc = "frames" /\ sess[k].lastE = 450
                     /\ uniformProgress(sess[k]) = 500

\* C13: the progress written to the shader uniform is within [0, 1] on every
\* frame, also when the frame's timestamp is earlier than the recorded start.
C13_ProgressClamped ==
  \A k \in Slots : sess[k].pc = "frames" =>
    (uniformProgress(sess[k]) >= 0 /\ uniformProgress(sess[k]) <= 1000)

\* C14: the two texture loads of a session are pending together; until both have
\* resolved, in either order, the session renders no frame and a load that
\* resolves changes nothing but the record of that load (no image hidden, no
\* slide flag changed); a load that rejects ends the session without a frame.
C14_RenderAfterBothLoads ==
  \A k \in Slots :
    /\ sess[k].pc = "frames" => (sess[k].load0 = "ok" /\ sess[k].load1 = "ok")
    /\ sess[k].pc = "loading" =>
         /\ sess[k].lastE = NoFrame
         /\ \A w \in {0, 1}, sch \in BOOLEAN :
              LET mine  == IF w = 0 THEN sess[k].load0 ELSE sess[k].load1
                  other == IF w = 0 THEN sess[k].load1 ELSE sess[k].load0
                  after == IF w = 0 THEN [sess[k] EXCEPT !.load0 = "ok"]
                                    ELSE [sess[k] EXCEPT !.load1 = "ok"]
              IN mine = "pending" =>
                   /\ other = "pending" =>
                        loadDone(S, k, w, TRUE, sch) = [S EXCEPT !.sess = [sess EXCEPT ![k] = after]]
                   /\ loadDone(S, k, w, FALSE, sch).sess[k].pc = "free"

\* the to-image's texture has loaded first and the from-image's is still pending
C14_Witness ==
  \E k \in Slots : sess[k].pc = "loading" /\ sess[k].load1 = "ok" /\ sess[k].load0 = "pending"

\* C15: with looping disabled, next() at the last index and prev() at index 0
\* change nothing; at any other index they call show for the adjacent slide,
\* which from Idle moves the index there or starts the transition to it.
C15_BoundaryNoop ==
  ~options.loop =>
    \A c \in BOOLEAN :
      /\ index = N - 1 => next(S, c) = S
      /\ index = 0 => prev(S, c) = S
      /\ index < N - 1 =>
           /\ next(S, c) = show(S, index + 1, c)
           /\ ~isAnimating =>
                \/ next(S, c).index = index + 1
                \/ next(S, c).isAnimating /\ next(S, c).cur = [from |-> index, to |-> index + 1]
      /\ index > 0 =>
           /\ prev(S, c) = show(S, index - 1, c)
           /\ ~isAnimating =>
                \/ prev(S, c).index = index - 1
                \/ prev(S, c).isAnimating /\ prev(S, c).cur = [from |-> index, to |-> index - 1]

\* looping is off and the slider rests in Idle on the last of several slides
C15_Witness ==
  ~options.loop /\ N > 1 /\ index = N - 1 /\ ~isAnimating /\ next(S, TRUE) = S

\* Idle with nothing pending: no fade frame, fade timer or session
Quiet == ~isAnimating /\ ~Pending /\ fadeRafs = <<>>

\* C16: with looping enabled, from every index of every slide count, N calls of
\* next(), each issued in Idle and left to complete, bring the index back to
\* where it started; with a single slide each call changes nothing.
C16_NextCycles ==
  (options.loop /\ Quiet) =>
    /\ nextTimes(S, N).index = index
    /\ ~nextTimes(S, N).isAnimating
    /\ N = 1 => next(S, TRUE) = S

\* started on the last of three slides: the first next() wraps around to slide 0
C16_Witness ==
  /\ options.loop /\ Quiet /\ N = 3 /\ index = 2
  /\ nextTimes(S, 1).index = 0 /\ nextTimes(S, 2).index = 1 /\ nextTimes(S, 3).index = 2

\* C17: with looping enabled, prev() then next(), and next() then prev(), each
\* issued in Idle and left to complete, bring the index back to where it started,
\* also across the wraparound between index 0 and the last index.
C17_PrevNextInverse ==
  (options.loop /\ Quiet) =>
    /\ drive(next(drive(prev(S, TRUE)), TRUE)).index = index
    /\ drive(prev(drive(next(S, TRUE)), TRUE)).index = index

\* at index 0 of several slides: prev() wraps to the last slide, next() returns
C17_Witness ==
  /\ options.loop /\ Quiet /\ N > 1 /\ index = 0 /\ Entered
  /\ drive(prev(S, TRUE)).index = N - 1
  /\ drive(next(drive(prev(S, TRUE)), TRUE)).index = 0

\* C18: at most one autoplay interval is live and this._timer is its handle (or
\* null when none is live); play() twice leaves one interval, stop() twice is
\* stop() once, and after stop() or destroy() no interval is live.
C18_OneTimer ==
  /\ Cardinality(intervals) <= 1
  /\ intervals = (IF timer = 0 THEN {} ELSE {timer})
  /\ play(play(S)).intervals = {play(play(S)).timer} /\ play(play(S)).timer # 0
  /\ stop(stop(S)) = stop(S)
  /\ stop(S).intervals = {} /\ stop(S).timer = 0
  /\ destroy(S).intervals = {} /\ destroy(S).timer = 0

\* autoplay is running, has moved the slider, and play() is called again
C18_Witness ==
  /\ timer # 0 /\ intervals = {timer} /\ index # 0
  /\ Cardinality(play(S).intervals) = 1

\* C19: the index is updated once per transition, together with the active
\* flags: a transition begins only with the flag clear; while the flag stays set
\* the index does not move; the step that clears the flag moves the index from
\* the source to the target; and in no state is the slide at the index inactive,
\* or the flags finalized to the target while the index still names the source.
C19_IndexOncePerTransition ==
  [][/\ cur' # cur => (~isAnimating /\ isAnimating')
     /\ (isAnimating /\ isAnimating') => index' = index
     /\ (isAnimating /\ ~isAnimating') => (index = cur.from /\ index' = cur.to)
     /\ active'[index']
     /\ ~(isAnimating' /\ index' = cur'.from /\ active'[cur'.to] /\ ~active'[cur'.from])]_vars

\* C20: a completion is pending only for the transition that holds the animating
\* flag: with the flag clear no fade timer and no session is pending, and with it
\* set every pending fade timer and session is for the current (from, to); so no
\* fallback fade is started for a transition that has already completed.
C20_NoStaleCompletion ==
  /\ ~isAnimating => (fadeTimers = <<>> /\ Live = {})
  /\ isAnimating =>
       /\ \A j \in 1..Len(fadeTimers) : fadeTimers[j] = [f |-> cur.from, t |-> cur.to]
       /\ \A k \in Live : sess[k].f = cur.from /\ sess[k].t = cur.to

\* C21: once a fade has completed (its timer has fired, the slider is Idle and
\* nothing else is pending), no image carries an inline opacity or transition,
\* whether the fade's frame callback ran before its timer or runs after it.
C21_FadeStylesCleared ==
  (~isAnimating /\ ~Pending) =>
    \A i \in Slides : opacity[i] = "" /\ ~transition[i]

\* In r, the images of slides f and t have the inline opacity pf and pt again;
\* the to-image may instead have been set to "0" by a fade started after the
\* session settled.
Restored(r, f, t, pf, pt) ==
  /\ r.opacity[f] = pf
  /\ r.opacity[t] = pt \/ (r.fadeTimers # fadeTimers /\ r.opacity[t] = "0")

\* C22: a session that has hidden the two images gives both their pre-session
\* opacity back when it ends: on completion, on a render exception in a frame
\* and when the first frame cannot be scheduled, in both classes.
C22_ImagesRestored ==
  \A k \in Slots :
    /\ sess[k].pc = "frames" =>
         \A e \in Elapsed, x \in Faults :
           (e >= sess[k].lastE /\ (x = "dispose" => progress(e) = 1000)) =>
             LET r == step(S, k, e, x # "render", x # "dispose")
             IN r.sess[k].pc = "free" =>
                  Restored(r, sess[k].f, sess[k].t, sess[k].prevF, sess[k].prevT)
    /\ (sess[k].pc = "loading" /\ sess[k].load0 = "ok" /\ sess[k].load1 = "pending") =>
         Restored(loadDone(S, k, 1, TRUE, FALSE), sess[k].f, sess[k].t,
                  opacity[sess[k].f], opacity[sess[k].t])

\* C23: while the animating flag is set for a transition from f to t, only
\* slides f and t are active, f is active, and both are active while the fade's
\* timer is pending or the session is in its frame loop.
C23_OnlyFromAndToActive ==
  isAnimating =>
    /\ \A i \in Slides : active[i] => i \in {cur.from, cur.to}
    /\ active[cur.from]
    /\ (fadeTimers # <<>> \/ \E k \in Slots : sess[k].pc = "frames") => active[cur.to]

\* C24: a frame callback of a session is scheduled again exactly when its render
\* succeeded with progress below 1.0; on the final frame and on a failure inside
\* a frame the session ends with no frame callback scheduled, so a session that
\* has settled renders no more.
C24_NoFrameAfterSettle ==
  \A k \in Slots : sess[k].pc = "frames" =>
    \A e \in Elapsed, x \in Faults :
      (e >= sess[k].lastE /\ (x = "dispose" => progress(e) = 1000)) =>
        LET r == step(S, k, e, x # "render", x # "dispose")
        IN /\ r.sess[k].pc = "frames" <=> (x # "render" /\ progress(e) < 1000)
           /\ r.sess[k].pc # "frames" => r.sess[k] = NoSess

\* a session has run its frames to the end and settled: nothing of it is pending
C24_Witness ==
  /\ raf # 0 /\ Live = {} /\ sess[raf] = NoSess
  /\ ~isAnimating /\ Entered /\ index = cur.to /\ ~leaked /\ ~orphan

\* C25: with the library absent or incomplete and a GPU effect configured, a
\* session acquires nothing (no canvas is ever attached, no resource created, no
\* session gets past the import), and when the absence is found the state is
\* handed unchanged to the rejection handler of show().
C25_LibraryMissingFailsFast ==
  (three # "ok" /\ options.animation # "none") =>
    /\ ~orphan /\ ~leaked
    /\ \A k \in Slots :
         /\ sess[k].pc \in {"free", "import"}
         /\ sess[k].pc = "import" =>
              \A c \in BOOLEAN :
                importDone(S, k, c) =
                  catchHandler([S EXCEPT !.sess = [sess EXCEPT ![k] = NoSess]],
                               sess[k].f, sess[k].t)

\* C26: the index is a slide's index in every state, and show(i) with i outside
\* [0, N) changes nothing: not the index, not a flag, not the animating flag.
C26_IndexInRange ==
  /\ index \in 0..(N - 1)
  /\ \A i \in {-2, -1, N, N + 1}, c \in BOOLEAN : show(S, i, c) = S

\* in Idle on the last of three slides after a transition: show(3) and show(-1)
\* are calls that would otherwise be carried out
C26_Witness ==
  /\ ~isAnimating /\ Entered /\ N = 3 /\ index = 2 /\ hasImg[2]
  /\ show(S, 3, TRUE) = S /\ show(S, -1, TRUE) = S

====
